---- MODULE Spec2Model ----
(***************************************************************************)
(* Model of the exchange-rate CLI: the range aggregator                    *)
(* (exchange_rate_overview) and the cache-then-network rate provider       *)
(* (get_exchange_rate).                                                    *)
(*                                                                         *)
(* f64 values are modelled bit-exactly for positive finite numbers: a      *)
(* 53-bit significand (a natural number held as 13-bit limbs) and the      *)
(* binary exponent of its last bit.  All arithmetic rounds to nearest,     *)
(* ties to even, as the hardware does.  Text (currency codes, file names,  *)
(* file contents) is a sequence of one-character strings.                  *)
(***************************************************************************)
EXTENDS Integers, Sequences, FiniteSets, TLC

(***************************************************************************)
(* Natural numbers of any size: sequences of limbs in base 2^13, most      *)
(* significant first, <<>> for zero.  Every intermediate product stays     *)
(* below 2^31.                                                             *)
(***************************************************************************)
LimbBits == 13
Base == 2 ^ LimbBits

ZeroLimbs(n) == [i \in 1..n |-> 0]

RECURSIVE BigNorm(_)
BigNorm(a) == IF a = <<>> \/ a[1] # 0 THEN a ELSE BigNorm(Tail(a))

PadLeft(a, n) == IF Len(a) >= n THEN a ELSE ZeroLimbs(n - Len(a)) \o a

RECURSIVE AddFrom(_, _, _, _, _)
AddFrom(a, b, i, carry, acc) ==
    IF i = 0 THEN (IF carry = 1 THEN <<1>> \o acc ELSE acc)
    ELSE IF a[i] + b[i] + carry >= Base
    THEN AddFrom(a, b, i - 1, 1, <<a[i] + b[i] + carry - Base>> \o acc)
    ELSE AddFrom(a, b, i - 1, 0, <<a[i] + b[i] + carry>> \o acc)

BigAdd(a, b) ==
    LET n == IF Len(a) >= Len(b) THEN Len(a) ELSE Len(b)
    IN  BigNorm(AddFrom(PadLeft(a, n), PadLeft(b, n), n, 0, <<>>))

RECURSIVE SubFrom(_, _, _, _, _)
SubFrom(a, b, i, borrow, acc) ==
    IF i = 0 THEN acc
    ELSE IF a[i] - b[i] - borrow < 0
    THEN SubFrom(a, b, i - 1, 1, <<a[i] - b[i] - borrow + Base>> \o acc)
    ELSE SubFrom(a, b, i - 1, 0, <<a[i] - b[i] - borrow>> \o acc)

\* a - b, for a >= b
BigSub(a, b) ==
    LET n == IF Len(a) >= Len(b) THEN Len(a) ELSE Len(b)
    IN  BigNorm(SubFrom(PadLeft(a, n), PadLeft(b, n), n, 0, <<>>))

RECURSIVE MulFrom(_, _, _, _, _)
MulFrom(a, k, i, carry, acc) ==
    IF i = 0 THEN (IF carry > 0 THEN <<carry>> \o acc ELSE acc)
    ELSE MulFrom(a, k, i - 1, (a[i] * k + carry) \div Base,
                 <<(a[i] * k + carry) % Base>> \o acc)

\* a * k, for 0 <= k < 2^17
BigMulSmall(a, k) == BigNorm(MulFrom(a, k, Len(a), 0, <<>>))

RECURSIVE DivFrom(_, _, _, _, _)
DivFrom(a, n, i, rem, acc) ==
    IF i > Len(a) THEN [q |-> BigNorm(acc), r |-> rem]
    ELSE DivFrom(a, n, i + 1, (rem * Base + a[i]) % n,
                 Append(acc, (rem * Base + a[i]) \div n))

\* quotient and remainder of a by n, for 1 <= n < 2^17
BigDivSmall(a, n) == DivFrom(a, n, 1, 0, <<>>)

\* a * 2^s
BigShl(a, s) ==
    IF a = <<>> THEN <<>>
    ELSE BigMulSmall(a, 2 ^ (s % LimbBits)) \o ZeroLimbs(s \div LimbBits)

\* floor(a / 2^s), and whether any bit was shifted out
BigShr(a, s) ==
    LET whole == s \div LimbBits
    IN  IF whole >= Len(a)
        THEN [q |-> <<>>, sticky |-> a # <<>>]
        ELSE LET d == BigDivSmall(SubSeq(a, 1, Len(a) - whole), 2 ^ (s % LimbBits))
             IN  [q |-> d.q,
                  sticky |-> d.r # 0 \/ \E i \in (Len(a) - whole + 1)..Len(a) : a[i] # 0]

\* the number of bits of a, for a # <<>>
BitLen(a) ==
    (Len(a) - 1) * LimbBits
        + (CHOOSE k \in 1..LimbBits : 2 ^ (k - 1) <= a[1] /\ a[1] < 2 ^ k)

BigFromInt(n) ==
    BigNorm(<<n \div (Base * Base), (n \div Base) % Base, n % Base>>)

BigOdd(a) == a # <<>> /\ a[Len(a)] % 2 = 1

\* a < b
BigLess(a, b) ==
    \/ Len(a) < Len(b)
    \/ /\ Len(a) = Len(b)
       /\ \E i \in 1..Len(a) : a[i] < b[i] /\ \A j \in 1..(i - 1) : a[j] = b[j]

(***************************************************************************)
(* f64: zero and the positive finite values, [m, e] standing for m * 2^e   *)
(* with 2^52 <= m < 2^53.                                                  *)
(***************************************************************************)
MantissaBits == 53
DivExtraBits == 65

F64Zero == [m |-> <<>>, e |-> 0]

\* round the exact value a * 2^e (plus a non-zero tail when sticky) to the
\* nearest f64, ties to even
RoundBig(a, e, sticky) ==
    IF a = <<>> THEN F64Zero
    ELSE IF BitLen(a) <= MantissaBits
    THEN [m |-> BigShl(a, MantissaBits - BitLen(a)), e |-> e - (MantissaBits - BitLen(a))]
    ELSE LET d     == BitLen(a) - MantissaBits
             s1    == BigShr(a, d - 1)
             keep  == BigShr(s1.q, 1).q
             up    == BigOdd(s1.q) /\ (sticky \/ s1.sticky \/ BigOdd(keep))
             k2    == IF up THEN BigAdd(keep, <<1>>) ELSE keep
         IN  IF BitLen(k2) > MantissaBits
             THEN [m |-> BigShr(k2, 1).q, e |-> e + d + 1]
             ELSE [m |-> k2, e |-> e + d]

\* n as f64, for 0 <= n < 2^31
F64FromInt(n) == RoundBig(BigFromInt(n), 0, FALSE)

\* a + b
F64Add(a, b) ==
    IF a = F64Zero THEN b
    ELSE IF b = F64Zero THEN a
    ELSE LET lo == IF a.e <= b.e THEN a.e ELSE b.e
         IN  RoundBig(BigAdd(BigShl(a.m, a.e - lo), BigShl(b.m, b.e - lo)), lo, FALSE)

\* a < b
F64Less(a, b) ==
    IF b = F64Zero THEN FALSE
    ELSE IF a = F64Zero THEN TRUE
    ELSE IF a.e # b.e THEN a.e < b.e
    ELSE BigLess(a.m, b.m)

\* a - b, for a >= b
F64Sub(a, b) ==
    IF b = F64Zero THEN a
    ELSE LET lo == IF a.e <= b.e THEN a.e ELSE b.e
         IN  RoundBig(BigSub(BigShl(a.m, a.e - lo), BigShl(b.m, b.e - lo)), lo, FALSE)

\* a / (n as f64), for an integer 1 <= n < 2^17
F64DivInt(a, n) ==
    IF a = F64Zero THEN F64Zero
    ELSE LET d == BigDivSmall(BigShl(a.m, DivExtraBits), n)
         IN  RoundBig(d.q, a.e - DivExtraBits, d.r # 0)

(***************************************************************************)
(* Text.                                                                   *)
(***************************************************************************)
Digits == <<"0", "1", "2", "3", "4", "5", "6", "7", "8", "9">>

\* the decimal text of n >= 0, as {} formats an integer
RECURSIVE IntToString(_)
IntToString(n) ==
    IF n < 10 THEN Digits[n + 1] ELSE IntToString(n \div 10) \o Digits[(n % 10) + 1]

\* one character of str::to_lowercase, over the letters the model uses
LowerChar(c) ==
    CASE c = "U" -> "u" [] c = "S" -> "s" [] c = "D" -> "d"
      [] c = "G" -> "g" [] c = "B" -> "b" [] c = "P" -> "p"
      [] OTHER -> c

\* a comparison that keeps the case of the letters
KeepCase(str) == str

\* lines 108-109
to_lowercase(str) == [i \in 1..Len(str) |-> LowerChar(str[i])]

\* a sequence of characters as one string
RECURSIVE Join(_)
Join(chars) == IF chars = <<>> THEN "" ELSE chars[1] \o Join(Tail(chars))

DigitValue(c) == CHOOSE n \in 0..9 : Digits[n + 1] = c
IsDigit(c) == \E n \in 0..9 : Digits[n + 1] = c

(***************************************************************************)
(* f64 to and from decimal text.                                           *)
(***************************************************************************)
ParseExtraBits == 130
MaxFractionDigits == 17

\* the value of at most four decimal digits
Digits4(ds) ==
    LET d(i) == IF i <= Len(ds) THEN DigitValue(ds[i]) * 10 ^ (Len(ds) - i) ELSE 0
    IN  d(1) + d(2) + d(3) + d(4)

\* the four decimal digits of n < 10^4
ToDigits4(n) ==
    <<Digits[(n \div 1000) + 1], Digits[((n \div 100) % 10) + 1],
      Digits[((n \div 10) % 10) + 1], Digits[(n % 10) + 1]>>

RECURSIVE BigFromDigits(_)
BigFromDigits(ds) ==
    IF Len(ds) <= 4 THEN BigFromInt(Digits4(ds))
    ELSE BigAdd(BigMulSmall(BigFromDigits(SubSeq(ds, 1, Len(ds) - 4)), 10000),
                BigFromInt(Digits4(SubSeq(ds, Len(ds) - 3, Len(ds)))))

\* floor(a / 10^k), and whether anything was cut off
RECURSIVE BigDivPow10(_, _)
BigDivPow10(a, k) ==
    IF k = 0 THEN [q |-> a, sticky |-> FALSE]
    ELSE LET step == IF k >= 4 THEN 4 ELSE k
             d    == BigDivSmall(a, 10 ^ step)
             rest == BigDivPow10(d.q, k - step)
         IN  [q |-> rest.q, sticky |-> rest.sticky \/ d.r # 0]

RECURSIVE BigMulPow10(_, _)
BigMulPow10(a, k) ==
    IF k = 0 THEN a
    ELSE IF k >= 4 THEN BigMulPow10(BigMulSmall(a, 10000), k - 4)
    ELSE BigMulSmall(a, 10 ^ k)

\* the f64 nearest to n / 10^k
F64FromDecimal(n, k) ==
    LET d == BigDivPow10(BigShl(n, ParseExtraBits), k)
    IN  RoundBig(d.q, -ParseExtraBits, d.sticky)

\* str::parse::<f64> on text made of digits and "."; any other text is
\* refused, as is text with no digit
ParseF64(txt) ==
    LET dots == {i \in 1..Len(txt) : txt[i] = "."}
    IN  IF \/ \E i \in 1..Len(txt) : txt[i] # "." /\ ~IsDigit(txt[i])
           \/ Cardinality(dots) > 1
           \/ Len(txt) = Cardinality(dots)
        THEN [ok |-> FALSE, err |-> "invalid float literal"]
        ELSE LET dot  == IF dots = {} THEN Len(txt) + 1 ELSE CHOOSE i \in dots : TRUE
                 int  == SubSeq(txt, 1, dot - 1)
                 frac == SubSeq(txt, dot + 1, Len(txt))
             IN  [ok |-> TRUE,
                  value |-> F64FromDecimal(BigFromDigits(int \o frac), Len(frac))]

\* the integer nearest to v * 10^k
ScaledInteger(v, k) ==
    LET p == BigMulPow10(v.m, k)
    IN  IF v.e >= 0 THEN BigShl(p, v.e)
        ELSE LET s1   == BigShr(p, (-v.e) - 1)
                 keep == BigShr(s1.q, 1).q
             IN  IF BigOdd(s1.q) /\ (s1.sticky \/ BigOdd(keep))
                 THEN BigAdd(keep, <<1>>)
                 ELSE keep

\* the decimal digits of a, with leading zeros
RECURSIVE BigToDigits(_)
BigToDigits(a) ==
    IF a = <<>> THEN <<>>
    ELSE LET d == BigDivSmall(a, 10000)
         IN  BigToDigits(d.q) \o ToDigits4(d.r)

StripZeros(ds) ==
    LET first == {i \in 1..Len(ds) : ds[i] # "0"}
    IN  IF first = {} THEN <<>>
        ELSE SubSeq(ds, CHOOSE i \in first : \A j \in first : i <= j, Len(ds))

ReadsBack(v, k) == F64FromDecimal(ScaledInteger(v, k), k) = v

\* the fewest fraction digits whose nearest decimal reads back as v
FractionDigits(v) ==
    CHOOSE k \in 0..MaxFractionDigits :
        /\ k = MaxFractionDigits \/ ReadsBack(v, k)
        /\ \A j \in 0..(k - 1) : ~ReadsBack(v, j)

\* f64::to_string: the shortest decimal text that reads back as v
F64ToString(v) ==
    IF v = F64Zero THEN <<"0">>
    ELSE LET k  == FractionDigits(v)
             ds == StripZeros(BigToDigits(ScaledInteger(v, k)))
             pd == IF Len(ds) > k THEN ds ELSE [i \in 1..(k + 1 - Len(ds)) |-> "0"] \o ds
         IN  IF k = 0 THEN pd
             ELSE SubSeq(pd, 1, Len(pd) - k) \o <<".">> \o SubSeq(pd, Len(pd) - k + 1, Len(pd))

(***************************************************************************)
(* Dates: NaiveDate d stands for 2021-03-d; 2021-03-01 is a Monday.        *)
(***************************************************************************)
Sat == 5
Sun == 6

weekday(d) == (d - 1) % 7

\* opt.date_to.signed_duration_since(date).num_days()
num_days_since(date_to, date) == date_to - date

(***************************************************************************)
(* Results.                                                                *)
(***************************************************************************)
None == [some |-> FALSE]
Some(v) == [some |-> TRUE, v |-> v]
Ok(v) == [ok |-> TRUE, value |-> v]
Err(e) == [ok |-> FALSE, err |-> e]

ACCEPTABLE_RETRIEVAL_FAILURE_FRACTION == F64DivInt(F64FromInt(5), 100)

ErrSameCurrency == "You have to pick two different currencies"
ErrDateOrder == "date_from must precede or be equal to date_to"
ErrNoData ==
    "Could not retrieve even 1 rate. Perhaps pick a date range with more working days."
ErrFailureRate == "Failure rate exceeded acceptable threshold (0.05)"
ErrPanic == "panicked: called Option::unwrap() on a None value"

(***************************************************************************)
(* Bounds of the explored inputs.                                          *)
(***************************************************************************)
\* short ranges lie within 2021-03-01 .. 2021-03-ShortDays
ShortDays == 7
\* long ranges start on 2021-03-01 and end in the week up to 2021-03-MaxDay
MaxDay == 29
\* how many lookups the long-range provider lets fail
MaxFailures == 1

\* how many get_exchange_rate calls a run of the cache model makes
MaxCalls == 3
USD == <<"U", "S", "D">>
Usd == <<"U", "s", "d">>
GBP == <<"G", "B", "P">>
Currencies == {USD, Usd, GBP}

\* the rates an arbitrary provider answers with: 0.1, 1.0, 2.0
Rates == {F64DivInt(F64FromInt(1), 10), F64FromInt(1), F64FromInt(2)}

VARIABLES
    opt,                \* the parsed command line (types::Opt)
    exchange_provider,  \* the provider passed to exchange_rate_overview
    pc,                 \* where exchange_rate_overview stands
    processed_date, expected_days, retrieved_days,
    rate_sum, max_rate, min_rate,
    result,             \* the ExchangeResult returned, None while running
    calls,              \* every provider call so far, with its answer
    files,              \* the working directory: file name -> its content, if any
    last,               \* the latest get_exchange_rate call and what it returned
    fetched,            \* per key, the rate a network fetch has returned Ok for
    call_count          \* how many get_exchange_rate calls were made

overviewVars == <<opt, exchange_provider, pc, processed_date, expected_days,
                  retrieved_days, rate_sum, max_rate, min_rate, result, calls>>
cacheVars == <<files, last, fetched, call_count>>
vars == <<overviewVars, cacheVars>>

\* The providers: "any" answers every call with any rate or an error;
\* "day" is the closure of the tests, Ok(date.day() as f64) except on the dates in
\* fails, where it answers Err("error").
Answers(provider, date) ==
    IF provider.kind = "any"
    THEN {Ok(v) : v \in Rates} \cup {Err("error")}
    ELSE IF date \in provider.fails THEN {Err("error")} ELSE {Ok(F64FromInt(date))}

(***************************************************************************)
(* get_exchange_rate: the cache files and the exchange-rate service.       *)
(***************************************************************************)
EXCHANGE_URL == "https://api.exchangeratesapi.io/"

\* date.format("%F")
FormatDate(d) == "2021-03-" \o (IF d < 10 THEN "0" ELSE "") \o IntToString(d)

\* line 49
CacheFileName(currency_from, currency_to, date) ==
    Join(currency_from) \o "_" \o Join(currency_to) \o "_" \o FormatDate(date) \o ".cached"

\* the lookups the cache model makes
Keys == {<<USD, GBP, 1>>, <<USD, GBP, 2>>}
FileNames == {CacheFileName(k[1], k[2], k[3]) : k \in Keys}

\* a byte sequence that is not UTF-8
InvalidByte == "\\xFF"

\* the rates the service reports: 0.72 and 0.30000000000000004
NetRates ==
    {F64DivInt(F64FromInt(72), 100),
     F64Add(F64DivInt(F64FromInt(1), 10), F64DivInt(F64FromInt(2), 10))}

\* what a cache file left by an earlier run or by the user may hold: a
\* rate, text that is no number, nothing, bytes that are no text
FoundContents == {<<"0", ".", "5">>, <<"x">>, <<>>, <<InvalidByte>>}

\* JSON values: null, numbers, strings, objects
JNull == [type |-> "null"]
JNumber(v) == [type |-> "number", value |-> v]
JString(str) == [type |-> "string", value |-> str]
JObject(fields) == [type |-> "object", fields |-> fields]

as_object(json) == IF json.type = "object" THEN Some(json.fields) ELSE None
get(fields, key) == IF key \in DOMAIN fields THEN Some(fields[key]) ELSE None
as_f64(json) == IF json.type = "number" THEN Some(json.value) ELSE None

\* the bodies the service may answer a request for currency_to with
Bodies(currency_from, currency_to) ==
    {JNull,
     JObject([base |-> JString(Join(currency_from))]),
     JObject([rates |-> JNumber(F64FromInt(1))]),
     JObject([rates |-> JObject((Join(currency_from)) :> JNumber(F64FromInt(1)))]),
     JObject([rates |-> JObject((Join(currency_to)) :> JString("n/a"))])}
    \cup {JObject([rates |-> JObject((Join(currency_from)) :> JNumber(F64FromInt(1))
                                      @@ (Join(currency_to)) :> JNumber(v)),
                   base |-> JString(Join(currency_from))]) : v \in NetRates}

\* lines 83-93: the rate of currency_to in the response, if it is there
RateValue(json_body, currency_to) ==
    LET top == as_object(json_body)
    IN  IF ~top.some THEN None
        ELSE LET rates == get(top.v, "rates")
             IN  IF ~rates.some THEN None
                 ELSE LET obj == as_object(rates.v)
                      IN  IF ~obj.some THEN None
                          ELSE LET rate == get(obj.v, Join(currency_to))
                               IN  IF ~rate.some THEN None ELSE as_f64(rate.v)

\* rate_value.to_string(), worked out once for each rate of the service
RateTexts == [v \in NetRates |-> F64ToString(v)]

\* a rate written with six decimal places only
CacheTextSixPlaces(rate_value) ==
    SubSeq(RateTexts[rate_value], 1,
           IF Len(RateTexts[rate_value]) < 8 THEN Len(RateTexts[rate_value]) ELSE 8)

\* line 97: the text written to the cache file
CacheText(rate_value) == RateTexts[rate_value]

\* lines 55-63: the rate held by a cache file
ReadCached(content, fname) ==
    IF \E i \in 1..Len(content) : content[i] = InvalidByte
    THEN Err("invalid cache file content: " \o fname)
    ELSE LET parsed == ParseF64(content)
         IN  IF parsed.ok THEN Ok(parsed.value)
             ELSE Err("cannot parse cached rate value: " \o fname)

ProperPrefixes(txt) == {SubSeq(txt, 1, n) : n \in 0..(Len(txt) - 1)}

\* what a call records: its arguments, its result, whether it sent a request
\* to the service, and the cache and the fetched rates as it found them
Returns(key, res, requested) ==
    /\ last' = Some([currency_from |-> key[1], currency_to |-> key[2], date |-> key[3],
                     res |-> res, requested |-> requested,
                     files_before |-> files, fetched_before |-> fetched[key]])
    /\ call_count' = call_count + 1
    /\ UNCHANGED overviewVars

Calling(key) == call_count < MaxCalls /\ key \in Keys

\* lines 51-58: the cache file is there and is read
CacheLookup(key) ==
    LET fname == CacheFileName(key[1], key[2], key[3])
    IN  /\ Calling(key)
        /\ files[fname].some
        /\ Returns(key, ReadCached(files[fname].v, fname), FALSE)
        /\ UNCHANGED <<files, fetched>>

\* lines 52, 54: the cache file is there and cannot be opened or read
CacheReadFails(key) ==
    LET fname == CacheFileName(key[1], key[2], key[3])
    IN  /\ Calling(key)
        /\ files[fname].some
        /\ \E what \in {"cannot open cache file: ", "cannot read cache file: "} :
              Returns(key, Err(what \o fname), FALSE)
        /\ UNCHANGED <<files, fetched>>

\* line 69: no cache file, and the HTTP client cannot be built
ClientBuildFails(key) ==
    /\ Calling(key)
    /\ ~files[CacheFileName(key[1], key[2], key[3])].some
    /\ Returns(key, Err("reqwest::Error { kind: Builder }"), FALSE)
    /\ UNCHANGED <<files, fetched>>

\* lines 70-79: no cache file, and the request fails, times out after 10 s,
\* or its answer is not JSON
RequestFails(key) ==
    /\ Calling(key)
    /\ ~files[CacheFileName(key[1], key[2], key[3])].some
    /\ \E kind \in {"Request", "TimedOut", "Decode"} :
          Returns(key, Err("reqwest::Error { kind: " \o kind \o " }"), TRUE)
    /\ UNCHANGED <<files, fetched>>

\* lines 83-93: no cache file, and the answer holds no rate for currency_to
MalformedResponse(key) ==
    /\ Calling(key)
    /\ ~files[CacheFileName(key[1], key[2], key[3])].some
    /\ \E json_body \in Bodies(key[1], key[2]) :
          /\ ~RateValue(json_body, key[2]).some
          /\ Returns(key, Err("cannot parse json: " \o json_body.type), TRUE)
    /\ UNCHANGED <<files, fetched>>

\* line 96: the rate arrived, and the cache file cannot be created
CacheCreateFails(key) ==
    LET fname == CacheFileName(key[1], key[2], key[3])
    IN  /\ Calling(key)
        /\ ~files[fname].some
        /\ \E json_body \in Bodies(key[1], key[2]) :
              /\ RateValue(json_body, key[2]).some
              /\ Returns(key, Err("cannot create cache file: " \o fname), TRUE)
        /\ UNCHANGED <<files, fetched>>

\* lines 96-98: the rate arrived, the cache file is created, and write_all
\* fails after writing only part of the text, or none of it
CacheWriteFails(key) ==
    LET fname == CacheFileName(key[1], key[2], key[3])
    IN  /\ Calling(key)
        /\ ~files[fname].some
        /\ \E json_body \in Bodies(key[1], key[2]) :
              /\ RateValue(json_body, key[2]).some
              /\ \E written \in ProperPrefixes(CacheText(RateValue(json_body, key[2]).v)) :
                    files' = [files EXCEPT ![fname] = Some(written)]
              /\ Returns(key, Err("cannot write cache file: " \o fname), TRUE)
        /\ UNCHANGED fetched

\* lines 66-100: the rate arrived and is cached and returned
FetchAndCache(key) ==
    LET fname == CacheFileName(key[1], key[2], key[3])
    IN  /\ Calling(key)
        /\ ~files[fname].some
        /\ \E json_body \in Bodies(key[1], key[2]) :
              LET rate_value == RateValue(json_body, key[2])
              IN  /\ rate_value.some
                  /\ files' = [files EXCEPT ![fname] = Some(CacheText(rate_value.v))]
                  /\ fetched' = [fetched EXCEPT ![key] = Some(rate_value.v)]
                  /\ Returns(key, Ok(rate_value.v), TRUE)

get_exchange_rate(key) ==
    \/ CacheLookup(key)
    \/ CacheReadFails(key)
    \/ ClientBuildFails(key)
    \/ RequestFails(key)
    \/ MalformedResponse(key)
    \/ CacheCreateFails(key)
    \/ CacheWriteFails(key)
    \/ FetchAndCache(key)

InitLocals ==
    /\ pc = "start"
    /\ processed_date = 0
    /\ expected_days = 0
    /\ retrieved_days = 0
    /\ rate_sum = F64Zero
    /\ max_rate = None
    /\ min_rate = None
    /\ result = None
    /\ calls = <<>>

InitCacheIdle ==
    /\ files = [f \in FileNames |-> None]
    /\ last = None
    /\ fetched = [k \in Keys |-> None]
    /\ call_count = 0

\* the cache model starts in a directory holding any files whatever
InitCache ==
    /\ InitLocals
    /\ files \in [FileNames -> {None} \cup {Some(c) : c \in FoundContents}]
    /\ last = None
    /\ fetched = [k \in Keys |-> None]
    /\ call_count = 0
    /\ opt = [currency_from |-> USD, currency_to |-> GBP, date_from |-> 1, date_to |-> 2]
    /\ exchange_provider = [kind |-> "get_exchange_rate", fails |-> {}]

InitShort ==
    /\ opt \in [currency_from : Currencies, currency_to : Currencies,
                date_from : 1..ShortDays, date_to : 1..ShortDays]
    /\ exchange_provider = [kind |-> "any", fails |-> {}]

\* the subsets of S with at most k elements
RECURSIVE SmallSubsets(_, _)
SmallSubsets(S, k) ==
    IF k = 0 THEN {{}}
    ELSE LET prev == SmallSubsets(S, k - 1)
         IN  prev \cup {s \cup {x} : s \in prev, x \in S}

InitLong ==
    \E to \in (MaxDay - 6)..MaxDay :
       /\ opt = [currency_from |-> USD, currency_to |-> GBP, date_from |-> 1, date_to |-> to]
       /\ \E fails \in SmallSubsets({d \in 1..to : weekday(d) \notin {Sat, Sun}}, MaxFailures) :
             exchange_provider = [kind |-> "day", fails |-> fails]

Init == (InitShort \/ InitLong) /\ InitLocals /\ InitCacheIdle

\* lines 108-123: validation, then the locals
Validate ==
    /\ pc = "start"
    /\ IF to_lowercase(opt.currency_from) = to_lowercase(opt.currency_to)
       THEN /\ result' = Some(Err(ErrSameCurrency))
            /\ pc' = "done"
            /\ UNCHANGED processed_date
       ELSE IF num_days_since(opt.date_to, opt.date_from) < 0
       THEN /\ result' = Some(Err(ErrDateOrder))
            /\ pc' = "done"
            /\ UNCHANGED processed_date
       ELSE /\ processed_date' = opt.date_from
            /\ pc' = "loop"
            /\ UNCHANGED result
    /\ UNCHANGED <<opt, exchange_provider, expected_days, retrieved_days,
                   rate_sum, max_rate, min_rate, calls>>
    /\ UNCHANGED cacheVars

\* a loop that stops one day early
LoopConditionStrict == num_days_since(opt.date_to, processed_date) > 0

\* line 126
LoopCondition == num_days_since(opt.date_to, processed_date) >= 0

\* lines 127-128, 159: a Saturday or Sunday is stepped over
SkipWeekend ==
    /\ pc = "loop"
    /\ LoopCondition
    /\ weekday(processed_date) \in {Sat, Sun}
    /\ processed_date' = processed_date + 1
    /\ UNCHANGED <<opt, exchange_provider, pc, expected_days, retrieved_days,
                   rate_sum, max_rate, min_rate, result, calls>>
    /\ UNCHANGED cacheVars

\* lines 135-142
UpdateMax(cur, value, date) ==
    IF cur.some
    THEN (IF F64Less(cur.v[1], value) THEN Some(<<value, date>>) ELSE cur)
    ELSE Some(<<value, date>>)

\* a minimum that moves to the later date on a tie
UpdateMinOnTies(cur, value, date) ==
    IF cur.some
    THEN (IF F64Less(cur.v[1], value) THEN cur ELSE Some(<<value, date>>))
    ELSE Some(<<value, date>>)

\* lines 143-150
UpdateMin(cur, value, date) ==
    IF cur.some
    THEN (IF F64Less(value, cur.v[1]) THEN Some(<<value, date>>) ELSE cur)
    ELSE Some(<<value, date>>)

\* a sum that keeps the latest value only
AddToSumOverwrites(sum, value) == value

\* line 134
AddToSum(sum, value) == F64Add(sum, value)

\* lines 129-156, 159: one business day, the provider called once
Query ==
    /\ pc = "loop"
    /\ LoopCondition
    /\ weekday(processed_date) \notin {Sat, Sun}
    /\ expected_days' = expected_days + 1
    /\ \E res \in Answers(exchange_provider, processed_date) :
          /\ calls' = Append(calls, [currency_from |-> opt.currency_from,
                                     currency_to |-> opt.currency_to,
                                     date |-> processed_date, res |-> res])
          /\ IF res.ok
             THEN /\ retrieved_days' = retrieved_days + 1
                  /\ rate_sum' = AddToSum(rate_sum, res.value)
                  /\ max_rate' = UpdateMax(max_rate, res.value, processed_date)
                  /\ min_rate' = UpdateMin(min_rate, res.value, processed_date)
             ELSE UNCHANGED <<retrieved_days, rate_sum, max_rate, min_rate>>
    /\ processed_date' = processed_date + 1
    /\ UNCHANGED <<opt, exchange_provider, pc, result>>
    /\ UNCHANGED cacheVars

\* a check that looks at the business days only
NoDataExpectedOnly(expected, retrieved) == expected = 0

\* line 162
NoData(expected, retrieved) == expected = 0 \/ retrieved = 0

\* line 166
FailureRateExceeded(expected, retrieved) ==
    F64Less(ACCEPTABLE_RETRIEVAL_FAILURE_FRACTION,
            F64Sub(F64FromInt(1), F64DivInt(F64FromInt(retrieved), expected)))

\* a mean over the days asked for
MeanRateOverExpected(sum, retrieved) == F64DivInt(sum, expected_days)

\* line 172
MeanRate(sum, retrieved) == F64DivInt(sum, retrieved)

\* a notice that counts the retrieved days
NoticeCountsRetrieved(expected, retrieved) ==
    IF expected = retrieved
    THEN None
    ELSE Some("we failed to retrieve " \o IntToString(retrieved)
              \o " of " \o IntToString(expected) \o " rates")

\* lines 175-179
Notice(expected, retrieved) ==
    IF expected = retrieved
    THEN None
    ELSE Some("we failed to retrieve " \o IntToString(expected - retrieved)
              \o " of " \o IntToString(expected) \o " rates")

\* lines 162-180: after the loop
Finish ==
    /\ pc = "loop"
    /\ ~LoopCondition
    /\ pc' = "done"
    /\ result' =
          IF NoData(expected_days, retrieved_days)
          THEN Some(Err(ErrNoData))
          ELSE IF FailureRateExceeded(expected_days, retrieved_days)
          THEN Some(Err(ErrFailureRate))
          ELSE IF ~min_rate.some \/ ~max_rate.some
          THEN Some(Err(ErrPanic))
          ELSE Some(Ok([mean_rate |-> MeanRate(rate_sum, retrieved_days),
                        min_rate |-> min_rate.v,
                        max_rate |-> max_rate.v,
                        notice |-> Notice(expected_days, retrieved_days)]))
    /\ UNCHANGED <<opt, exchange_provider, processed_date, expected_days, retrieved_days,
                   rate_sum, max_rate, min_rate, calls>>
    /\ UNCHANGED cacheVars

Next == Validate \/ SkipWeekend \/ Query \/ Finish

Spec == Init /\ [][Next]_vars

\* any sequence of get_exchange_rate calls
NextCache == \E key \in Keys : get_exchange_rate(key)

SpecCache == InitCache /\ [][NextCache]_vars

(***************************************************************************)
(* What the properties speak of, read off the input and the call log       *)
(* rather than off the function's own counters.                            *)
(***************************************************************************)
Done == pc = "done"
Returned == result.v

LetterPairs == {{"U", "u"}, {"S", "s"}, {"D", "d"}, {"G", "g"}, {"B", "b"}, {"P", "p"}}
SameIgnoringCase(a, b) ==
    /\ Len(a) = Len(b)
    /\ \A i \in 1..Len(a) : a[i] = b[i] \/ {a[i], b[i]} \in LetterPairs

ValidInput ==
    /\ ~SameIgnoringCase(opt.currency_from, opt.currency_to)
    /\ opt.date_from <= opt.date_to

IsMonToFri(d) == (d - 1) % 7 < 5
BusinessDays == {d \in opt.date_from..opt.date_to : IsMonToFri(d)}
OkCalls == {i \in 1..Len(calls) : calls[i].res.ok}
FailedCalls == {i \in 1..Len(calls) : ~calls[i].res.ok}
Succeeded == Done /\ Returned.ok

\* C1 (as stated): with valid input and at least one rate retrieved, the run
\* fails with the failure-rate error exactly when 20 * failed > expected;
\* one failure in twenty business days is accepted.
C1_FailsExactlyAboveFivePercent ==
    (Done /\ ValidInput /\ OkCalls # {})
        => ((Returned = Err(ErrFailureRate))
              <=> 20 * Cardinality(FailedCalls) > Cardinality(BusinessDays))

\* C2: with valid input the provider is asked exactly once for every
\* Monday-to-Friday date of the range, in ascending order, never for a
\* weekend day, whatever it answers; expected_days ends as their number.
C2_OneCallPerBusinessDay ==
    ValidInput =>
        /\ \A i \in 1..Len(calls) :
              /\ calls[i].date \in BusinessDays
              /\ \A j \in (i + 1)..Len(calls) : calls[i].date < calls[j].date
        /\ Done => /\ {calls[i].date : i \in 1..Len(calls)} = BusinessDays
                   /\ expected_days = Cardinality(BusinessDays)

C2_Witness ==
    /\ Done /\ ValidInput
    /\ \E d \in opt.date_from..opt.date_to : ~IsMonToFri(d)
    /\ \E i \in FailedCalls : \E j \in OkCalls : i < j

\* the least and the greatest of the retrieved values, and the first date of one
OkValues == {calls[i].res.value : i \in OkCalls}
LeastValue == CHOOSE v \in OkValues : \A w \in OkValues : ~F64Less(w, v)
GreatestValue == CHOOSE v \in OkValues : \A w \in OkValues : ~F64Less(v, w)
DatesOf(v) == {calls[i].date : i \in {k \in OkCalls : calls[k].res.value = v}}
EarliestDateOf(v) == CHOOSE d \in DatesOf(v) : \A d2 \in DatesOf(v) : d <= d2

\* C3: on success min_rate is the least retrieved value with the earliest
\* date that produced it, and max_rate the greatest retrieved value with the
\* earliest date that produced it.
C3_ExtremesKeepEarliestDate ==
    Succeeded =>
        /\ Returned.value.min_rate = <<LeastValue, EarliestDateOf(LeastValue)>>
        /\ Returned.value.max_rate = <<GreatestValue, EarliestDateOf(GreatestValue)>>

C3_Witness ==
    /\ Succeeded
    /\ LeastValue # GreatestValue
    /\ Cardinality(DatesOf(LeastValue)) >= 2
    /\ Cardinality(DatesOf(GreatestValue)) >= 2
    /\ \E d \in DatesOf(GreatestValue) : d < EarliestDateOf(LeastValue)

\* every partial sum v, 2v, ..., n*v is an f64
ExactMultiples(v, n) ==
    \A k \in 1..n :
        LET p == BigMulSmall(v.m, k)
        IN  BitLen(p) <= MantissaBits \/ ~BigShr(p, BitLen(p) - MantissaBits).sticky

AllAnswered(v) == \A i \in 1..Len(calls) : calls[i].res = Ok(v)

\* C4 (as stated): with valid input, when every lookup answers the same rate
\* v, the run returns a summary with mean_rate = v, min and max value v and
\* no notice.
C4_ConstantProviderMeanIsV ==
    \A v \in Rates :
        (Done /\ ValidInput /\ AllAnswered(v)) =>
            /\ Returned.ok
            /\ Returned.value.mean_rate = v
            /\ Returned.value.min_rate[1] = v
            /\ Returned.value.max_rate[1] = v
            /\ Returned.value.notice = None

\* C4 (amended): when the range holds a business day and every lookup answers
\* the same rate v, the run succeeds with min and max value v and no notice,
\* and mean_rate = v provided every partial sum k*v is exactly an f64.
C4_ConstantProviderAmended ==
    \A v \in Rates :
        (Done /\ ValidInput /\ calls # <<>> /\ AllAnswered(v)) =>
            /\ Returned.ok
            /\ Returned.value.min_rate[1] = v
            /\ Returned.value.max_rate[1] = v
            /\ Returned.value.notice = None
            /\ ExactMultiples(v, Len(calls)) => Returned.value.mean_rate = v

C4_Witness ==
    /\ Done /\ ValidInput
    /\ \E v \in Rates :
          /\ AllAnswered(v)
          /\ v # F64FromInt(1)
          /\ Len(calls) >= 2
          /\ ExactMultiples(v, Len(calls))
          /\ Returned.value.mean_rate = v

\* the retrieved values added up in call order
RECURSIVE SumOk(_)
SumOk(log) ==
    IF log = <<>> THEN F64Zero
    ELSE LET before == SumOk(SubSeq(log, 1, Len(log) - 1))
             final  == log[Len(log)]
         IN  IF final.res.ok THEN F64Add(before, final.res.value) ELSE before

\* C5: on success mean_rate is the sum of the retrieved values, added in
\* ascending date order, divided by their number; weekends and failed days
\* count in neither.
C5_MeanOverRetrievedDays ==
    Succeeded => Returned.value.mean_rate = F64DivInt(SumOk(calls), Cardinality(OkCalls))

C5_Witness ==
    /\ Succeeded
    /\ FailedCalls # {}
    /\ \E d \in opt.date_from..opt.date_to : ~IsMonToFri(d)

\* C6: with valid input the run fails with the no-data error exactly when the
\* range holds no business day or every lookup failed, and it never panics.
C6_NoDataExactlyWhenNothingRetrieved ==
    (Done /\ ValidInput) =>
        /\ (Returned = Err(ErrNoData)) <=> (BusinessDays = {} \/ OkCalls = {})
        /\ Returned # Err(ErrPanic)

C6_Witness ==
    /\ Done /\ ValidInput
    /\ Len(calls) >= 2
    /\ OkCalls = {}
    /\ Returned = Err(ErrNoData)

\* C7: the run is rejected as invalid input, with no provider call, exactly
\* when the currencies are equal ignoring case or date_from is after date_to.
C7_InvalidInputExactly ==
    /\ ~ValidInput => calls = <<>>
    /\ Done => ((Returned \in {Err(ErrSameCurrency), Err(ErrDateOrder)}) <=> ~ValidInput)
    /\ (Done /\ SameIgnoringCase(opt.currency_from, opt.currency_to))
          => Returned = Err(ErrSameCurrency)

C7_Witness ==
    /\ Done
    /\ opt.currency_from # opt.currency_to
    /\ SameIgnoringCase(opt.currency_from, opt.currency_to)
    /\ opt.date_from < opt.date_to
    /\ Returned = Err(ErrSameCurrency)

\* C8: on success notice is None exactly when every business day was
\* retrieved; otherwise it reads "we failed to retrieve F of E rates" with E
\* the business days of the range and F >= 1 the failed ones, within 5%.
C8_NoticeCountsFailures ==
    Succeeded =>
        LET E == Cardinality(BusinessDays)
            F == Cardinality(FailedCalls)
        IN  /\ (Returned.value.notice = None) <=> (Cardinality(OkCalls) = E)
            /\ F >= 1 =>
                  /\ Returned.value.notice =
                        Some("we failed to retrieve " \o IntToString(F) \o " of "
                             \o IntToString(E) \o " rates")
                  /\ 20 * F <= E

C8_Witness ==
    /\ Succeeded
    /\ Returned.value.notice = Some("we failed to retrieve 1 of 21 rates")

(***************************************************************************)
(* Properties of get_exchange_rate, over the latest call.                  *)
(***************************************************************************)
LastFile == CacheFileName(last.v.currency_from, last.v.currency_to, last.v.date)

CacheReadErrors ==
    {Err("cannot open cache file: " \o LastFile), Err("cannot read cache file: " \o LastFile)}

\* C9 (as stated): once a call for a key has fetched a rate v and returned
\* Ok(v), every later call for that key returns Ok(v) and sends no request.
C9_LaterCallsReturnCachedValue ==
    (last.some /\ last.v.fetched_before.some) =>
        /\ last.v.res = Ok(last.v.fetched_before.v)
        /\ ~last.v.requested

\* C9 (amended): once a call for a key has fetched a rate v and returned
\* Ok(v), every later call for that key sends no request, and returns Ok(v)
\* unless the cache file cannot be opened or read, when it returns that error.
C9_LaterCallsAmended ==
    (last.some /\ last.v.fetched_before.some) =>
        /\ ~last.v.requested
        /\ \/ last.v.res = Ok(last.v.fetched_before.v)
           \/ last.v.res \in CacheReadErrors

C9_Witness ==
    /\ last.some
    /\ last.v.fetched_before.some
    /\ Len(F64ToString(last.v.fetched_before.v)) > 10
    /\ last.v.res = Ok(last.v.fetched_before.v)

\* C10 (as stated): a cache entry appears only through a call for its key
\* whose fetch succeeded, an entry is never changed or removed, a call that
\* returns an error leaves the cache as it was, and a call that finds an
\* entry, corrupt or not, sends no request.
C10_ErrorsLeaveCacheAsItWas ==
    last.some =>
        /\ ~last.v.res.ok => files = last.v.files_before
        /\ \A f \in FileNames :
              files[f] # last.v.files_before[f] =>
                  /\ f = LastFile
                  /\ ~last.v.files_before[f].some
                  /\ last.v.res.ok
                  /\ last.v.requested
        /\ last.v.files_before[LastFile].some => ~last.v.requested
====
